---- MODULE Spec2Model ----
(***************************************************************************)
(* Model of src/main.ts: the review view of the spaced-repetition plugin.  *)
(*                                                                         *)
(* Time is counted in hours since the module was loaded (Date.now() is in  *)
(* milliseconds; every duration the code uses is a whole number of days).  *)
(* easeFactor is kept in hundredths (2.5 is 250), so that the arithmetic   *)
(* of updateCardSchedule is exact integer arithmetic.                      *)
(***************************************************************************)
EXTENDS Integers, Sequences, FiniteSets, TLC

VARIABLES
    now,            \* Date.now(), hours since module load
    cards,          \* MOCK_CARDS: the shared Card objects, by position 1..3
    pc,             \* "closed" (no view), "new" (constructed), "opening" (onOpen
                    \* awaits renderCard), "open" (listeners attached)
    currentCard,    \* ReviewView.currentCard: position in cards, 0 for null/undefined
    cardQueue,      \* ReviewView.cardQueue: sequence of positions in cards
    currentIndex,   \* ReviewView.currentIndex (0-based, as in the code)
    reviewedToday,  \* ReviewView.reviewedToday
    screen,         \* what contentArea holds: "none", "card" or "complete"
    clozeHidden,    \* the rendered active-group spans: TRUE = .is-hidden, FALSE = .is-revealed
    feedbackShown,  \* feedbackArea has class 'show'
    pending,        \* MarkdownRenderer.render calls not yet resolved
    nFeedback,      \* history: submitFeedback calls in this session
    dueAtOpen,      \* history: number of cards due when the session was opened
    openedAt,       \* history: time at which the session was opened
    anyReveal,      \* history: a reveal happened in this session
    lastFb,         \* history: the last accepted feedback of this session
    presented,      \* history: the cards renderCard was called for in this session
    gradedAt,       \* history: per card, when it was last graded (-1: never)
    maxReviewsPerDay,   \* plugin.settings.maxReviewsPerDay
    card,           \* scheduler harness: the card handed to updateCardSchedule
    calls,          \* scheduler harness: log of the calls made on card
    doc,            \* cloze harness: the content, as the pieces it is made of
    activeId,       \* cloze harness: the activeClozeId argument
    rendered        \* cloze harness: the result of processClozeContent

vars == <<now, cards, pc, currentCard, cardQueue, currentIndex, reviewedToday,
          screen, clozeHidden, feedbackShown, pending,
          nFeedback, dueAtOpen, openedAt, anyReveal, lastFb, presented,
          gradedAt, maxReviewsPerDay, card, calls, doc, activeId, rendered>>

viewVars == <<pc, currentCard, cardQueue, currentIndex, reviewedToday,
          screen, clozeHidden, feedbackShown, pending>>
hist == <<nFeedback, dueAtOpen, openedAt, anyReveal, lastFb, presented, gradedAt>>
settings == <<maxReviewsPerDay>>
harness == <<card, calls, doc, activeId, rendered>>

----------------------------------------------------------------------------
(* Bounds of the model *)

MaxHalfDays == 2    \* the clock stops advancing after this many half days
MaxFeedback == 3    \* feedback triggers explored per session
MaxCalls == 3       \* updateCardSchedule calls explored per harness card

(* Program constants *)

HoursPerDay == 24   \* 24 * 60 * 60 * 1000 ms
MinEase == 130      \* 1.3
TickSteps == {12, 24}

----------------------------------------------------------------------------
(* Helpers for JavaScript semantics *)

\* Math.round(a * e) for e in hundredths: floor(x + 0.5)
Round100(n) == (n + 50) \div 100

\* variant: the index is taken as 1-based
At_OneBased(queue, i) == IF i \in DOMAIN queue THEN queue[i] ELSE 0

\* array[i] with a 0-based index; undefined (0) outside the array
At(queue, i) == IF i + 1 \in DOMAIN queue THEN queue[i + 1] ELSE 0

\* String.prototype.replace('c', ''): removes the first "c" of a string,
\* a string being a sequence of characters
\* variant: nothing is removed
ReplaceC_None(s) == s

RECURSIVE ReplaceC(_)
ReplaceC(s) ==
    IF s = <<>> THEN <<>>
    ELSE IF Head(s) = "c" THEN Tail(s)
    ELSE <<Head(s)>> \o ReplaceC(Tail(s))

----------------------------------------------------------------------------
(* Cards *)

\* content is kept as the sequence of the group numbers of its well-formed
\* {{cN::text}} spans, each number a string of digits
MOCK_CARDS == <<
    [clozeId |-> <<"c", "1">>, spans |-> << <<"1">> >>,
     interval |-> 1, repetitions |-> 0, easeFactor |-> 250, dueDate |-> 0],
    [clozeId |-> <<"c", "1">>, spans |-> << <<"1">> >>,
     interval |-> 3, repetitions |-> 1, easeFactor |-> 260, dueDate |-> HoursPerDay],
    [clozeId |-> <<"c", "2">>, spans |-> << <<"2">> >>,
     interval |-> 7, repetitions |-> 2, easeFactor |-> 280, dueDate |-> 0 - HoursPerDay] >>

----------------------------------------------------------------------------
(* updateCardSchedule *)

\* variant: the quadratic term of the penalty is dropped
EaseDelta_Linear(quality) == 10 - (5 - quality) * 8

EaseDelta(quality) == 10 - (5 - quality) * (8 + (5 - quality) * 2)

\* variant: a failure leaves the interval as it was
NewInterval_KeepOnFail(c, quality) ==
    IF quality >= 3
    THEN IF c.repetitions = 0 THEN 1
         ELSE IF c.repetitions = 1 THEN 6
         ELSE Round100(c.interval * c.easeFactor)
    ELSE c.interval

\* variant: the second success has no fixed interval
NewInterval_NoSecondStep(c, quality) ==
    IF quality >= 3
    THEN IF c.repetitions = 0 THEN 1
         ELSE Round100(c.interval * c.easeFactor)
    ELSE 1

\* variant: quality 2 already counts as a success
NewInterval_PassAt2(c, quality) ==
    IF quality >= 2
    THEN IF c.repetitions = 0 THEN 1
         ELSE IF c.repetitions = 1 THEN 6
         ELSE Round100(c.interval * c.easeFactor)
    ELSE 1

\* variant: a failure makes the card due again the same day
NewInterval_ZeroOnFail(c, quality) ==
    IF quality >= 3
    THEN IF c.repetitions = 0 THEN 1
         ELSE IF c.repetitions = 1 THEN 6
         ELSE Round100(c.interval * c.easeFactor)
    ELSE 0

NewInterval(c, quality) ==
    IF quality >= 3
    THEN IF c.repetitions = 0 THEN 1
         ELSE IF c.repetitions = 1 THEN 6
         ELSE Round100(c.interval * c.easeFactor)
    ELSE 1

\* variant: a failure takes one repetition off instead of resetting
NewRepetitions_StepBack(c, quality) ==
    IF quality >= 3 THEN c.repetitions + 1 ELSE c.repetitions - 1

NewRepetitions(c, quality) ==
    IF quality >= 3 THEN c.repetitions + 1 ELSE 0

\* variant: a failure lowers the ease factor by 0.2
NewEase_FailPenalty(c, quality) ==
    IF quality >= 3 THEN c.easeFactor + EaseDelta(quality) ELSE c.easeFactor - 20

NewEase(c, quality) ==
    IF quality >= 3 THEN c.easeFactor + EaseDelta(quality) ELSE c.easeFactor

\* variant: no floor
ClampEase_None(e) == e

ClampEase(e) == IF e < MinEase THEN MinEase ELSE e

\* variant: the interval is counted from the previous due date
NewDueDate_FromOldDue(c, interval, t) == c.dueDate + interval * HoursPerDay

NewDueDate(c, interval, t) == t + interval * HoursPerDay

updateCardSchedule(c, quality, t) ==
    LET i == NewInterval(c, quality) IN
    [c EXCEPT !.interval = i,
              !.repetitions = NewRepetitions(c, quality),
              !.easeFactor = ClampEase(NewEase(c, quality)),
              !.dueDate = NewDueDate(c, i, t)]

----------------------------------------------------------------------------
(* processClozeContent on a string of characters.  The result is a         *)
(* sequence of items: a character of the output, or the span element that  *)
(* replaces a match, with its data-cloze-id and its text                   *)

IsDigitChar(ch) == ch \in {"0", "1", "2", "3", "4", "5", "6", "7", "8", "9"}

StartsWith(str, pre) ==
    Len(str) >= Len(pre) /\ SubSeq(str, 1, Len(pre)) = pre

Drop(str, n) == SubSeq(str, n + 1, Len(str))

\* \d+ : the length of the leading run of digits
RECURSIVE DigitRun(_)
DigitRun(str) ==
    IF str = <<>> \/ ~IsDigitChar(Head(str)) THEN 0 ELSE 1 + DigitRun(Tail(str))

\* (.*?)\}\} : the length of the shortest run of characters other than line
\* breaks that is followed by "}}", or -1
LazyUpToClose(str) ==
    LET ends == {k \in 0..(Len(str) - 2) :
                    /\ str[k + 1] = "}" /\ str[k + 2] = "}"
                    /\ \A j \in 1..k : str[j] # "\n"}
    IN  IF ends = {} THEN 0 - 1
        ELSE CHOOSE k \in ends : \A m \in ends : k <= m

\* one attempt of /\{\{c(\d+)::(.*?)\}\}/ at the start of str
MatchCloze(str) ==
    LET noMatch == [ok |-> FALSE, num |-> <<>>, text |-> <<>>, len |-> 0]
    IN  IF ~StartsWith(str, <<"{", "{", "c">>) THEN noMatch
        ELSE LET afterC == Drop(str, 3)
                 n == DigitRun(afterC)
                 afterNum == Drop(afterC, n)
             IN  IF n = 0 \/ ~StartsWith(afterNum, <<":", ":">>) THEN noMatch
                 ELSE LET body == Drop(afterNum, 2)
                          k == LazyUpToClose(body)
                      IN  IF k < 0 THEN noMatch
                          ELSE [ok |-> TRUE, num |-> SubSeq(afterC, 1, n),
                                text |-> SubSeq(body, 1, k),
                                len |-> 3 + n + 2 + k + 2]

Chars(str) == [i \in DOMAIN str |-> [kind |-> "char", id |-> <<>>, text |-> <<str[i]>>]]

IsActive(clozeNum, activeClozeId) == clozeNum = ReplaceC(activeClozeId)

RECURSIVE processClozeContent(_, _)
processClozeContent(content, activeClozeId) ==
    IF content = <<>> THEN <<>>
    ELSE LET m == MatchCloze(content) IN
         IF m.ok
         THEN (IF IsActive(m.num, activeClozeId)
               THEN <<[kind |-> "hidden", id |-> m.num, text |-> m.text]>>
               ELSE Chars(m.text))
              \o processClozeContent(Drop(content, m.len), activeClozeId)
         ELSE Chars(<<Head(content)>>)
              \o processClozeContent(Tail(content), activeClozeId)

----------------------------------------------------------------------------
(* processClozeContent, as far as the session needs it: the spans of the   *)
(* active group, each rendered with class is-hidden                        *)

RECURSIVE RenderedSpans(_, _)
RenderedSpans(spans, activeClozeId) ==
    IF spans = <<>> THEN <<>>
    ELSE (IF IsActive(Head(spans), activeClozeId) THEN <<TRUE>> ELSE <<>>)
         \o RenderedSpans(Tail(spans), activeClozeId)

----------------------------------------------------------------------------
(* The review queue *)

\* variant: a card due exactly now is not selected
IsDue_Strict(c, t) == c.dueDate < t

IsDue(c, t) == c.dueDate <= t

RECURSIVE FilterDue(_, _, _)
FilterDue(cs, i, t) ==
    IF i > Len(cs) THEN <<>>
    ELSE (IF IsDue(cs[i], t) THEN <<i>> ELSE <<>>) \o FilterDue(cs, i + 1, t)

\* variant: off by one
HasNext_OffByOne(index, queue) == index <= Len(queue)

HasNext(index, queue) == index < Len(queue)

----------------------------------------------------------------------------
(* The session: ReviewView *)

DEFAULT_SETTINGS == [maxReviewsPerDay |-> 50]

NoFeedback == [card |-> 0, at |-> 0]

\* contentArea.empty(): the note-content div of every render still awaited
\* is no longer in the document
Detached(p) == [i \in DOMAIN p |-> [p[i] EXCEPT !.attached = FALSE]]

RemoveAt(p, i) == SubSeq(p, 1, i - 1) \o SubSeq(p, i + 1, Len(p))

FirstHidden(h) ==
    IF \E i \in DOMAIN h : h[i]
    THEN CHOOSE i \in DOMAIN h : h[i] /\ \A j \in 1..(i - 1) : ~h[j]
    ELSE 0

SessionInit ==
    /\ now = 0
    /\ cards = MOCK_CARDS
    /\ pc = "closed"
    /\ currentCard = 0
    /\ cardQueue = <<>>
    /\ currentIndex = 0
    /\ reviewedToday = 0
    /\ screen = "none"
    /\ clozeHidden = <<>>
    /\ feedbackShown = FALSE
    /\ pending = <<>>
    /\ nFeedback = 0
    /\ dueAtOpen = 0
    /\ openedAt = 0
    /\ anyReveal = FALSE
    /\ lastFb = NoFeedback
    /\ presented = <<>>
    /\ gradedAt = [i \in DOMAIN MOCK_CARDS |-> 0 - 1]
    /\ maxReviewsPerDay = DEFAULT_SETTINGS.maxReviewsPerDay

NotRendered == [done |-> FALSE, out |-> <<>>]

Init ==
    /\ SessionInit
    /\ card = MOCK_CARDS[1]
    /\ calls = <<>>
    /\ doc = <<>>
    /\ activeId = MOCK_CARDS[1].clozeId
    /\ rendered = NotRendered

\* The clock advances
Tick ==
    /\ \E d \in TickSteps :
        /\ now + d <= MaxHalfDays * 12
        /\ now' = now + d
    /\ UNCHANGED <<cards, viewVars, hist, settings, harness>>

\* The host opens the view: the registered factory constructs a new
\* ReviewView, whose fields take their initializers
Construct ==
    /\ pc = "closed"
    /\ pc' = "new"
    /\ currentCard' = 0
    /\ cardQueue' = <<>>
    /\ currentIndex' = 0
    /\ reviewedToday' = 0
    /\ UNCHANGED <<now, cards, screen, clozeHidden, feedbackShown, pending,
                   hist, settings, harness>>

\* onOpen runs up to the await of renderCard, or to its end when no card
\* is due
onOpen ==
    /\ pc = "new"
    /\ LET queue == FilterDue(cards, 1, now) IN
        /\ cardQueue' = queue
        /\ currentIndex' = 0
        /\ feedbackShown' = FALSE
        /\ clozeHidden' = <<>>
        /\ IF Len(queue) > 0
           THEN /\ currentCard' = queue[1]
                /\ screen' = "card"
                /\ pending' = <<[card |-> queue[1], attached |-> TRUE, opening |-> TRUE]>>
                /\ presented' = <<queue[1]>>
                /\ pc' = "opening"
           ELSE /\ screen' = "complete"
                /\ pending' = <<>>
                /\ pc' = "open"
                /\ UNCHANGED <<currentCard, presented>>
        /\ dueAtOpen' = Cardinality({i \in DOMAIN cards : cards[i].dueDate <= now})
    /\ openedAt' = now
    /\ UNCHANGED <<now, cards, reviewedToday, nFeedback, anyReveal, lastFb,
                   gradedAt, settings, harness>>

\* MarkdownRenderer.render resolves and renderCard resumes; when it was
\* awaited by onOpen, onOpen goes on to addEventListeners
RenderDone(i) ==
    /\ i \in DOMAIN pending
    /\ pending' = RemoveAt(pending, i)
    /\ clozeHidden' = IF pending[i].attached
                      THEN RenderedSpans(cards[pending[i].card].spans,
                                         cards[pending[i].card].clozeId)
                      ELSE clozeHidden
    /\ feedbackShown' = FALSE
    /\ pc' = IF pending[i].opening THEN "open" ELSE pc
    /\ UNCHANGED <<now, cards, currentCard, cardQueue, currentIndex,
                   reviewedToday, screen, hist, settings, harness>>

revealAnswer(i) ==
    /\ clozeHidden' = [clozeHidden EXCEPT ![i] = FALSE]
    /\ feedbackShown' = TRUE
    /\ anyReveal' = TRUE
    /\ UNCHANGED <<now, cards, pc, currentCard, cardQueue, currentIndex,
                   reviewedToday, screen, pending,
                   nFeedback, dueAtOpen, openedAt, lastFb, presented, gradedAt,
                   settings, harness>>

\* click on a span of contentArea that matches '.cloze.is-hidden'
ClickCloze(i) ==
    /\ pc = "open"
    /\ i \in DOMAIN clozeHidden
    /\ clozeHidden[i]
    /\ revealAnswer(i)

\* keydown ' '
KeySpace ==
    /\ pc = "open"
    /\ FirstHidden(clozeHidden) # 0
    /\ revealAnswer(FirstHidden(clozeHidden))

submitFeedback(quality) ==
    /\ nFeedback < MaxFeedback
    /\ nFeedback' = nFeedback + 1
    /\ IF currentCard = 0
       THEN UNCHANGED <<cards, currentCard, currentIndex, reviewedToday, screen,
                        clozeHidden, feedbackShown, pending, lastFb, presented,
                        gradedAt>>
       ELSE /\ cards' = [cards EXCEPT
                            ![currentCard] = updateCardSchedule(@, quality, now)]
            /\ reviewedToday' = reviewedToday + 1
            /\ currentIndex' = currentIndex + 1
            /\ lastFb' = [card |-> currentCard, at |-> now]
            /\ gradedAt' = [gradedAt EXCEPT ![currentCard] = now]
            /\ IF HasNext(currentIndex + 1, cardQueue)
               THEN /\ currentCard' = At(cardQueue, currentIndex + 1)
                    /\ IF currentCard' = 0
                       THEN UNCHANGED <<screen, clozeHidden, pending, presented>>
                       ELSE /\ screen' = "card"
                            /\ clozeHidden' = <<>>
                            /\ pending' = Append(Detached(pending),
                                    [card |-> currentCard', attached |-> TRUE,
                                     opening |-> FALSE])
                            /\ presented' = Append(presented, currentCard')
                    /\ UNCHANGED feedbackShown
               ELSE /\ screen' = "complete"
                    /\ clozeHidden' = <<>>
                    /\ pending' = Detached(pending)
                    /\ feedbackShown' = FALSE
                    /\ UNCHANGED <<currentCard, presented>>
    /\ UNCHANGED <<now, pc, cardQueue, dueAtOpen, openedAt, anyReveal,
                   settings, harness>>

\* click on a .feedback-btn: Skip 0, Forgot 1, Remembered 3
ClickFeedback(quality) ==
    /\ pc = "open"
    /\ quality \in {0, 1, 3}
    /\ submitFeedback(quality)

\* keydown '1', '2', '3'
KeyDigit(key) ==
    /\ pc = "open"
    /\ key \in {"1", "2", "3"}
    /\ submitFeedback(IF key = "1" THEN 1 ELSE IF key = "2" THEN 0 ELSE 3)

\* variant: onClose clears the session fields
Close_Reset ==
    /\ pc # "closed"
    /\ pc' = "closed"
    /\ currentCard' = 0
    /\ cardQueue' = <<>>
    /\ currentIndex' = 0
    /\ reviewedToday' = 0
    /\ screen' = "none"
    /\ clozeHidden' = <<>>
    /\ feedbackShown' = FALSE
    /\ pending' = <<>>
    /\ nFeedback' = 0
    /\ dueAtOpen' = 0
    /\ openedAt' = 0
    /\ anyReveal' = FALSE
    /\ lastFb' = NoFeedback
    /\ presented' = <<>>
    /\ UNCHANGED <<now, cards, gradedAt, settings, harness>>

\* the view is closed (back button or the host): its elements leave the
\* document and nothing reaches its handlers any more; onClose does nothing,
\* so the fields of the abandoned object stay as they are
Close ==
    /\ pc # "closed"
    /\ pc' = "closed"
    /\ screen' = "none"
    /\ clozeHidden' = <<>>
    /\ feedbackShown' = FALSE
    /\ pending' = <<>>
    /\ nFeedback' = 0
    /\ dueAtOpen' = 0
    /\ openedAt' = 0
    /\ anyReveal' = FALSE
    /\ lastFb' = NoFeedback
    /\ presented' = <<>>
    /\ UNCHANGED <<now, cards, currentCard, cardQueue, currentIndex,
                   reviewedToday, gradedAt, settings, harness>>

\* parseInt on a string of characters: an optional sign, then the leading
\* run of digits; NaN when there is none
Digits == <<"0", "1", "2", "3", "4", "5", "6", "7", "8", "9">>

IsDigit(ch) == \E d \in DOMAIN Digits : Digits[d] = ch

DigitValue(ch) == (CHOOSE d \in DOMAIN Digits : Digits[d] = ch) - 1

RECURSIVE ParseDigits(_, _)
ParseDigits(str, acc) ==
    IF str = <<>> \/ ~IsDigit(Head(str)) THEN acc
    ELSE ParseDigits(Tail(str), 10 * acc + DigitValue(Head(str)))

parseInt(str) ==
    LET neg == str # <<>> /\ Head(str) = "-"
        body == IF str # <<>> /\ Head(str) \in {"-", "+"} THEN Tail(str) ELSE str
    IN  IF body = <<>> \/ ~IsDigit(Head(body))
        THEN [nan |-> TRUE, val |-> 0]
        ELSE [nan |-> FALSE,
              val |-> IF neg THEN 0 - ParseDigits(body, 0) ELSE ParseDigits(body, 0)]

\* the texts typed into the settings field
SettingTexts == {<<>>, <<"0">>, <<"1">>, <<"2">>, <<"-", "1">>, <<"x">>}

\* onChange of the maxReviewsPerDay field: parseInt(value) || 50
onChangeMaxReviews(value) ==
    /\ maxReviewsPerDay' =
            (IF parseInt(value).nan \/ parseInt(value).val = 0
             THEN 50 ELSE parseInt(value).val)
    /\ UNCHANGED <<now, cards, viewVars, hist, harness>>

Next ==
    \/ Tick
    \/ Construct
    \/ onOpen
    \/ \E i \in 1..3 : RenderDone(i)
    \/ \E i \in 1..3 : ClickCloze(i)
    \/ KeySpace
    \/ \E q \in {0, 1, 3} : ClickFeedback(q)
    \/ \E k \in {"1", "2", "3"} : KeyDigit(k)
    \/ Close

Spec == Init /\ [][Next]_vars

\* the session over a card set whose first card has two spans of its active
\* group and one of another group: {{c1::..}} {{c2::..}} {{c1::..}}
TwoSpanCards ==
    [MOCK_CARDS EXCEPT ![1].spans = << <<"1">>, <<"2">>, <<"1">> >>]

TwoSpanInit ==
    /\ now = 0
    /\ cards = TwoSpanCards
    /\ pc = "closed"
    /\ currentCard = 0
    /\ cardQueue = <<>>
    /\ currentIndex = 0
    /\ reviewedToday = 0
    /\ screen = "none"
    /\ clozeHidden = <<>>
    /\ feedbackShown = FALSE
    /\ pending = <<>>
    /\ nFeedback = 0
    /\ dueAtOpen = 0
    /\ openedAt = 0
    /\ anyReveal = FALSE
    /\ lastFb = NoFeedback
    /\ presented = <<>>
    /\ gradedAt = [i \in DOMAIN MOCK_CARDS |-> 0 - 1]
    /\ maxReviewsPerDay = DEFAULT_SETTINGS.maxReviewsPerDay
    /\ card = MOCK_CARDS[1]
    /\ calls = <<>>
    /\ doc = <<>>
    /\ activeId = MOCK_CARDS[1].clozeId
    /\ rendered = NotRendered

TwoSpanSpec == TwoSpanInit /\ [][Next]_vars

\* the session together with the settings tab
SettingsNext ==
    \/ Next
    \/ \E v \in SettingTexts : onChangeMaxReviews(v)

SettingsSpec == Init /\ [][SettingsNext]_vars

TypeOK ==
    /\ now \in 0..(MaxHalfDays * 12)
    /\ pc \in {"closed", "new", "opening", "open"}
    /\ currentCard \in 0..3
    /\ screen \in {"none", "card", "complete"}
    /\ feedbackShown \in BOOLEAN

----------------------------------------------------------------------------
(* updateCardSchedule on its own: a card in any prior scheduling state     *)
(* receives a sequence of calls with any quality values                    *)

PriorIntervals == {0, 1, 6, 7}
PriorRepetitions == {0 - 1, 0, 1, 2}
PriorEase == {40, 130, 136, 250, 280}
Qualities == (0 - 1)..5

Sched(c) == [interval |-> c.interval, repetitions |-> c.repetitions,
             easeFactor |-> c.easeFactor, dueDate |-> c.dueDate]

SchedInit ==
    /\ SessionInit
    /\ \E i \in PriorIntervals, r \in PriorRepetitions, e \in PriorEase :
        card = [MOCK_CARDS[1] EXCEPT !.interval = i, !.repetitions = r,
                                     !.easeFactor = e]
    /\ calls = <<>>
    /\ doc = <<>>
    /\ activeId = MOCK_CARDS[1].clozeId
    /\ rendered = NotRendered

Schedule(quality) ==
    /\ Len(calls) < MaxCalls
    /\ card' = updateCardSchedule(card, quality, now)
    /\ calls' = Append(calls, [quality |-> quality, before |-> Sched(card),
                               after |-> Sched(card')])
    /\ UNCHANGED <<now, cards, viewVars, hist, settings, doc, activeId, rendered>>

SchedNext == \E q \in Qualities : Schedule(q)

SchedSpec == SchedInit /\ [][SchedNext]_vars

----------------------------------------------------------------------------
(* processClozeContent on its own: a content made of a few pieces is       *)
(* rendered for an active id                                                *)

MaxPieces == 3      \* pieces per content

TextPiece(str) == [kind |-> "text", num |-> <<>>, text |-> str]
SpanPiece(num, str) == [kind |-> "span", num |-> num, text |-> str]
OpenPiece(num, str) == [kind |-> "open", num |-> num, text |-> str]

\* plain text, spans {{cN::text}} (one of them over two lines), and a span
\* that is never closed
Pieces == {
    TextPiece(<<"A">>),
    TextPiece(<<"\n">>),
    SpanPiece(<<"1">>, <<"B">>),
    SpanPiece(<<"2">>, <<"D">>),
    SpanPiece(<<"0", "1">>, <<"E">>),
    SpanPiece(<<"1">>, <<"F", "\n", "G">>),
    OpenPiece(<<"1">>, <<"H">>) }

IdPrefixes == {<<>>, <<"c">>, <<"x">>, <<"c", "c">>}
IdNumbers == {<<"1">>, <<"2">>}

PieceChars(p) ==
    IF p.kind = "text" THEN p.text
    ELSE <<"{", "{", "c">> \o p.num \o <<":", ":">> \o p.text
         \o (IF p.kind = "span" THEN <<"}", "}">> ELSE <<>>)

RECURSIVE Flatten(_)
Flatten(d) == IF d = <<>> THEN <<>> ELSE PieceChars(Head(d)) \o Flatten(Tail(d))

ClozeInit ==
    /\ SessionInit
    /\ card = MOCK_CARDS[1]
    /\ calls = <<>>
    /\ \E n \in 0..MaxPieces : doc \in [1..n -> Pieces]
    /\ \E pre \in IdPrefixes, num \in IdNumbers : activeId = pre \o num
    /\ rendered = NotRendered

Render ==
    /\ ~rendered.done
    /\ rendered' = [done |-> TRUE, out |-> processClozeContent(Flatten(doc), activeId)]
    /\ UNCHANGED <<now, cards, viewVars, hist, settings, card, calls, doc, activeId>>

ClozeNext == Render

ClozeSpec == ClozeInit /\ [][ClozeNext]_vars

----------------------------------------------------------------------------
(* Properties of updateCardSchedule, checked under SchedSpec               *)

\* C3: after every schedule call, whatever the quality and the prior state,
\* the card's easeFactor is at least 1.3
C3_EaseFloor ==
    \A k \in DOMAIN calls : calls[k].after.easeFactor >= 130

\* a success that takes the ease factor below 1.3 before the clamp
C3_Witness ==
    \E k \in DOMAIN calls :
        /\ calls[k].quality = 3
        /\ calls[k].before.easeFactor = 136
        /\ calls[k].after.easeFactor = 130

\* C4: a schedule call with quality < 3 leaves repetitions = 0 and
\* interval = 1, whatever the prior state
C4_FailureReset ==
    \A k \in DOMAIN calls :
        calls[k].quality < 3 =>
            /\ calls[k].after.repetitions = 0
            /\ calls[k].after.interval = 1

C4_Witness ==
    \E k \in DOMAIN calls :
        /\ calls[k].quality \in {0, 1}
        /\ calls[k].before.repetitions >= 2
        /\ calls[k].before.interval > 1
        /\ calls[k].after.interval = 1

\* C5: three consecutive quality-3 calls on a card that starts with
\* repetitions = 0 give intervals 1, 6 and round(6 * e2), e2 the ease factor
\* after the second call, and repetitions 1, 2, 3
C5_Bootstrap ==
    \A k \in DOMAIN calls :
        (/\ k + 2 \in DOMAIN calls
         /\ calls[k].before.repetitions = 0
         /\ \A j \in k..(k + 2) : calls[j].quality = 3)
        => /\ calls[k].after.interval = 1
           /\ calls[k].after.repetitions = 1
           /\ calls[k + 1].after.interval = 6
           /\ calls[k + 1].after.repetitions = 2
           /\ LET x == 6 * calls[k + 1].after.easeFactor
                  r == calls[k + 2].after.interval
              IN  100 * r - 50 <= x /\ x < 100 * r + 50
           /\ calls[k + 2].after.repetitions = 3

\* 2.5 -> 2.36 -> 2.22, and round(6 * 2.22) = 13
C5_Witness ==
    /\ Len(calls) = 3
    /\ \A j \in 1..3 : calls[j].quality = 3
    /\ calls[1].before.repetitions = 0
    /\ calls[1].before.easeFactor = 250
    /\ calls[3].after.interval = 13

\* C6, as claimed: after one or more schedule calls, from any prior
\* interval, repetitions and easeFactor, interval >= 1 and repetitions >= 0
C6_AsClaimed ==
    \A k \in DOMAIN calls :
        calls[k].after.interval >= 1 /\ calls[k].after.repetitions >= 0

\* the prior states from which the next interval can be computed: no
\* negative repetition count and, from the third success on, a product
\* interval * easeFactor that rounds to 1 or more
C6_PriorOK(b) ==
    /\ b.repetitions >= 0
    /\ (b.repetitions >= 2 => b.interval * b.easeFactor >= 50)

\* C6, amended: for a card whose prior state has repetitions >= 0 and, when
\* repetitions >= 2, interval * easeFactor >= 0.5, after one or more schedule
\* calls of any qualities interval >= 1 and repetitions >= 0
C6_IntervalAndRepetitions ==
    (calls # <<>> /\ C6_PriorOK(calls[1].before)) =>
        \A k \in DOMAIN calls :
            calls[k].after.interval >= 1 /\ calls[k].after.repetitions >= 0

\* a card at the floor of the ease factor, through successes and a failure
C6_Witness ==
    /\ Len(calls) = 3
    /\ calls[1].before = [interval |-> 1, repetitions |-> 2, easeFactor |-> 130,
                          dueDate |-> 0]
    /\ calls[1].quality = 3
    /\ calls[2].quality = 1
    /\ calls[3].quality = 3

\* C7: a call with quality 3 sets easeFactor to max(old - 0.14, 1.3)
C7_EaseAfterRemembered ==
    \A k \in DOMAIN calls :
        calls[k].quality = 3 =>
            calls[k].after.easeFactor =
                (IF calls[k].before.easeFactor - 14 >= 130
                 THEN calls[k].before.easeFactor - 14 ELSE 130)

\* 2.5 becomes 2.36
C7_Witness ==
    \E k \in DOMAIN calls :
        /\ calls[k].quality = 3
        /\ calls[k].before.easeFactor = 250
        /\ calls[k].after.easeFactor = 236

\* C8: a call with quality < 3 on a card whose easeFactor is at least 1.3
\* leaves the easeFactor unchanged
C8_FailureKeepsEase ==
    \A k \in DOMAIN calls :
        (calls[k].quality < 3 /\ calls[k].before.easeFactor >= 130) =>
            calls[k].after.easeFactor = calls[k].before.easeFactor

\* {interval 7, repetitions 2, easeFactor 2.8}, quality 1
C8_Witness ==
    \E k \in DOMAIN calls :
        /\ calls[k].quality = 1
        /\ calls[k].before.interval = 7
        /\ calls[k].before.repetitions = 2
        /\ calls[k].before.easeFactor = 280
        /\ calls[k].after.interval = 1
        /\ calls[k].after.repetitions = 0
        /\ calls[k].after.easeFactor = 280

----------------------------------------------------------------------------
(* Properties of the session, checked under Spec                           *)

Complete == screen = "complete"

\* C1: a session opened with N cards due is Complete after exactly N
\* feedback submissions and not before, whatever reveals happen in between;
\* with N = 0 it is Complete from the start
C1_CompleteAfterN ==
    pc \in {"opening", "open"} => (Complete <=> nFeedback >= dueAtOpen)

\* three cards due, a reveal on the way, the third feedback just submitted
C1_Witness ==
    /\ pc = "open"
    /\ dueAtOpen = 3
    /\ nFeedback = 3
    /\ anyReveal
    /\ Complete

\* C2: once the session is Complete, a feedback submission changes no card
\* and leaves the cursor and the reviewed count as they were
C2_NoOpWhenComplete ==
    [][(Complete /\ nFeedback' = nFeedback + 1)
        => UNCHANGED <<cards, currentIndex, reviewedToday>>]_vars

\* C9: the card graded last has dueDate = time of the submission + its new
\* interval in days, whenever the session was opened
C9_DueFromSubmission ==
    lastFb.card # 0 =>
        cards[lastFb.card].dueDate =
            lastFb.at + cards[lastFb.card].interval * 24

\* a submission made some time after the session was opened
C9_Witness ==
    /\ lastFb.card # 0
    /\ lastFb.at > openedAt
    /\ cards[lastFb.card].dueDate = now + cards[lastFb.card].interval * 24

\* C10: the queue built when the session opens holds exactly the cards with
\* dueDate <= now, each once, in the order of the source collection
C10_QueueIsDueCards ==
    [][(pc = "new" /\ pc' \in {"opening", "open"}) =>
        /\ \A i \in DOMAIN cards :
            (\E k \in DOMAIN cardQueue' : cardQueue'[k] = i)
                <=> cards[i].dueDate <= now
        /\ \A k \in DOMAIN cardQueue' : cardQueue'[k] \in DOMAIN cards
        /\ \A j, k \in DOMAIN cardQueue' : j < k => cardQueue'[j] < cardQueue'[k]
      ]_vars

\* a session just opened: one card due earlier, one due at this very
\* instant, one not due yet
C10_Witness ==
    /\ pc \in {"opening", "open"}
    /\ nFeedback = 0
    /\ now = openedAt
    /\ cardQueue = <<1, 3>>
    /\ cards[1].dueDate = openedAt
    /\ cards[3].dueDate < openedAt
    /\ cards[2].dueDate > openedAt

InSession == pc \in {"opening", "open"}

\* C11: within a session the queue never changes once built, whatever is
\* graded and however much time passes, and no card is presented twice
C11_QueueFrozen ==
    /\ [][(InSession /\ InSession') => cardQueue' = cardQueue]_vars
    /\ [](\A j, k \in DOMAIN presented :
            j # k => presented[j] # presented[k])

\* card 1 was graded and is no longer due, card 2 became due after the
\* session was opened, and the queue is still the one built at the start
C11_Witness ==
    /\ pc = "open"
    /\ cardQueue = <<1, 3>>
    /\ presented = <<1, 3>>
    /\ gradedAt[1] >= openedAt
    /\ cards[1].dueDate > now
    /\ cards[2].dueDate <= now
    /\ now > openedAt

\* C12: the queue built at session start holds at most maxReviewsPerDay
\* cards
C12_QueueWithinMax ==
    [][(pc = "new" /\ InSession') => Len(cardQueue') <= maxReviewsPerDay]_vars

----------------------------------------------------------------------------
(* Properties of processClozeContent, checked under ClozeSpec              *)

\* the non-digit prefix of an id and the digits after it
RECURSIVE IdDigits(_)
IdDigits(id) ==
    IF id = <<>> \/ IsDigitChar(Head(id)) THEN id ELSE IdDigits(Tail(id))

IdPrefix(id) == SubSeq(id, 1, Len(id) - Len(IdDigits(id)))

\* what the claim expects of a content made of text and spans: a span of
\* group n becomes a hidden element, any other span its bare text
RECURSIVE Expected(_, _)
Expected(d, n) ==
    IF d = <<>> THEN <<>>
    ELSE (IF Head(d).kind = "span" /\ Head(d).num = n
          THEN <<[kind |-> "hidden", id |-> Head(d).num, text |-> Head(d).text]>>
          ELSE [i \in DOMAIN Head(d).text |->
                    [kind |-> "char", id |-> <<>>, text |-> <<Head(d).text[i]>>]])
         \o Expected(Tail(d), n)

TextAndSpans(d) == \A i \in DOMAIN d : d[i].kind \in {"text", "span"}

OneLineSpans(d) ==
    \A i \in DOMAIN d :
        d[i].kind = "span" => \A j \in DOMAIN d[i].text : d[i].text[j] # "\n"

\* C14, as claimed: for an active id made of any non-digit prefix and the
\* digits N, every span of group N is replaced by a hidden element with its
\* group and text, every other span by its bare text
C14_AsClaimed ==
    (rendered.done /\ TextAndSpans(doc)) =>
        rendered.out = Expected(doc, IdDigits(activeId))

\* C14, amended: the same for an active id that is the digits N alone or
\* "c" followed by N, for spans whose text has no line break, M and N
\* compared as strings of digits
C14_Render ==
    (/\ rendered.done
     /\ TextAndSpans(doc)
     /\ OneLineSpans(doc)
     /\ IdPrefix(activeId) \in {<<>>, <<"c">>})
    => rendered.out = Expected(doc, IdDigits(activeId))

\* groups 1 and 2 rendered for "c1": B hidden, D shown
C14_Witness ==
    /\ rendered.done
    /\ doc = <<SpanPiece(<<"1">>, <<"B">>), TextPiece(<<"A">>),
               SpanPiece(<<"2">>, <<"D">>)>>
    /\ activeId = <<"c", "1">>
    /\ rendered.out = <<[kind |-> "hidden", id |-> <<"1">>, text |-> <<"B">>],
                        [kind |-> "char", id |-> <<>>, text |-> <<"A">>],
                        [kind |-> "char", id |-> <<>>, text |-> <<"D">>]>>

----------------------------------------------------------------------------
(* Properties of the session, continued                                    *)

\* a reveal or feedback trigger is handled in this step
TriggerStep ==
    \/ nFeedback' = nFeedback + 1
    \/ /\ clozeHidden' # clozeHidden
       /\ pending' = pending
       /\ nFeedback' = nFeedback
       /\ pc' = pc

\* C15: while a feedback transition still awaits the renderer for the next
\* card, no reveal or feedback trigger is processed
C15_RunToCompletion ==
    [][(\E i \in DOMAIN pending : ~pending[i].opening) => ~TriggerStep]_vars

\* C16: the spans of the active group are revealed together: no state has
\* one of them revealed while another is still hidden
C16_RevealedTogether ==
    \A i, j \in DOMAIN clozeHidden : clozeHidden[i] = clozeHidden[j]

Presenting == InSession /\ screen = "card"

\* C17: a feedback submission while a card is presented, masked or
\* revealed, schedules the current card, adds one to the reviewed count and
\* to the cursor, and then presents queue[cursor] masked if the cursor is
\* still inside the queue, and completes the session otherwise
C17_FeedbackAdvances ==
    [][(Presenting /\ nFeedback' = nFeedback + 1) =>
        /\ cards'[currentCard].dueDate = now + cards'[currentCard].interval * 24
        /\ \/ cards'[currentCard].repetitions = cards[currentCard].repetitions + 1
           \/ /\ cards'[currentCard].repetitions = 0
              /\ cards'[currentCard].interval = 1
        /\ reviewedToday' = reviewedToday + 1
        /\ currentIndex' = currentIndex + 1
        /\ IF currentIndex' < Len(cardQueue)
           THEN /\ screen' = "card"
                /\ currentCard' = cardQueue[currentIndex' + 1]
                /\ \A i \in DOMAIN clozeHidden' : clozeHidden'[i]
                /\ pending' # <<>>
                /\ pending'[Len(pending')].card = currentCard'
                /\ pending'[Len(pending')].attached
           ELSE screen' = "complete"
      ]_vars

\* the first card was revealed and then graded; the second is current and
\* its rendering is awaited
C17_Witness ==
    /\ pc = "open"
    /\ anyReveal
    /\ nFeedback = 1
    /\ lastFb.card = cardQueue[1]
    /\ screen = "card"
    /\ Len(cardQueue) >= 2
    /\ currentCard = cardQueue[2]
    /\ clozeHidden = <<>>
    /\ pending # <<>>

\* C18: a card changes only in a feedback submission, and then only the
\* current card; every other step of a session (reveal, session start,
\* close, a render resolving, time passing) leaves all cards, the cursor and
\* the reviewed count unchanged
C18_OnlyFeedbackChangesCards ==
    [][/\ cards' # cards =>
            /\ nFeedback' = nFeedback + 1
            /\ currentCard # 0
            /\ \A i \in DOMAIN cards : i # currentCard => cards'[i] = cards[i]
       /\ (nFeedback' # nFeedback + 1 /\ pc # "closed") =>
            UNCHANGED <<cards, currentIndex, reviewedToday>>
      ]_vars

\* a session closed after card 1 was revealed and graded: the cursor and the
\* reviewed count are still 1, cards 2 and 3 are as they were loaded
C18_Witness ==
    /\ pc = "closed"
    /\ currentIndex = 1
    /\ reviewedToday = 1
    /\ gradedAt[1] >= 0
    /\ cards[1] # MOCK_CARDS[1]
    /\ cards[2] = MOCK_CARDS[2]
    /\ cards[3] = MOCK_CARDS[3]

\* C19: in every state the cursor is within 0..cardQueue.length and the
\* reviewed count equals the cursor, so the displayed remaining count
\* cardQueue.length - currentIndex is never negative
C19_CursorInQueue ==
    /\ 0 <= currentIndex
    /\ currentIndex <= Len(cardQueue)
    /\ reviewedToday = currentIndex

\* the part of C19 that does hold
CursorCountsReviews == 0 <= currentIndex /\ reviewedToday = currentIndex

\* C20: a graded card is due strictly after the time it was graded, so a
\* session opened at that same instant does not queue it
C20_NotDueWhenGraded ==
    /\ [](\A c \in DOMAIN cards :
            gradedAt[c] >= 0 => cards[c].dueDate > gradedAt[c])
    /\ [][(pc = "new" /\ InSession') =>
            \A c \in DOMAIN cards :
                gradedAt[c] = now =>
                    \A k \in DOMAIN cardQueue' : cardQueue'[k] # c]_vars

\* card 1 was graded, the view closed, and a new session opened at the same
\* instant: card 1 is not in its queue
C20_Witness ==
    /\ InSession
    /\ nFeedback = 0
    /\ openedAt = now
    /\ gradedAt[1] = now
    /\ \A k \in DOMAIN cardQueue : cardQueue[k] # 1
    /\ cardQueue # <<>>

====
